---- MODULE Spec2Model ----
(***************************************************************************)
(* Model of src/backend.py: the NightCare demo backend.  One HTTPServer    *)
(* process serves requests one at a time (single-threaded serve_forever)   *)
(* against a SQLite file with four tables.                                 *)
(*                                                                         *)
(* Text is modelled as a sequence of one-character strings so that         *)
(* lower(), upper(), strip(), len() and the substring test `k in text`     *)
(* are computed, not assumed.  REAL columns (rating, distance_km) are      *)
(* kept in tenths (0.9 km is 9).  The created_at column (wall-clock        *)
(* CURRENT_TIMESTAMP) is not modelled.                                     *)
(***************************************************************************)
EXTENDS Integers, Sequences, FiniteSets, TLC

VARIABLES users, doctors, ambulance_bookings, blood_banks, sqlite_sequence,
          started, req, resp

vars == <<users, doctors, ambulance_bookings, blood_banks, sqlite_sequence,
          started, req, resp>>

db == <<users, doctors, ambulance_bookings, blood_banks, sqlite_sequence>>

(***************************************************************************)
(* Bounds of the model.                                                    *)
(***************************************************************************)
\* login requests are accepted while fewer than MaxLogins INSERTs were tried
MaxLogins == 2
\* booking requests are accepted while fewer than MaxBookings rows exist
MaxBookings == 2
\* a symptom description is the concatenation of at most MaxWords words
MaxWords == 2

(***************************************************************************)
(* Python str operations on character sequences.                           *)
(***************************************************************************)
UpperChars == <<"A", "B", "C", "D", "E", "F", "G", "H", "I", "J", "K", "L", "M",
                "N", "O", "P", "Q", "R", "S", "T", "U", "V", "W", "X", "Y", "Z">>
LowerChars == <<"a", "b", "c", "d", "e", "f", "g", "h", "i", "j", "k", "l", "m",
                "n", "o", "p", "q", "r", "s", "t", "u", "v", "w", "x", "y", "z">>
Whitespace == {" ", "\t", "\n", "\r"}

LowerChar(c) ==
    IF \E i \in 1..26 : UpperChars[i] = c
    THEN LowerChars[CHOOSE i \in 1..26 : UpperChars[i] = c]
    ELSE c

UpperChar(c) ==
    IF \E i \in 1..26 : LowerChars[i] = c
    THEN UpperChars[CHOOSE i \in 1..26 : LowerChars[i] = c]
    ELSE c

\* str.lower()
lower(s) == [i \in 1..Len(s) |-> LowerChar(s[i])]

\* str.upper()
upper(s) == [i \in 1..Len(s) |-> UpperChar(s[i])]

StripNothing(s) == s

\* str.strip(): drop leading and trailing whitespace
strip(s) ==
    LET keep == {i \in 1..Len(s) : s[i] \notin Whitespace}
    IN  IF keep = {} THEN <<>>
        ELSE LET lo == CHOOSE i \in keep : \A j \in keep : i <= j
                 hi == CHOOSE i \in keep : \A j \in keep : j <= i
             IN  SubSeq(s, lo, hi)

\* the substring test `k in text`
Contains(k, text) ==
    \E i \in 0..(Len(text) - Len(k)) : SubSeq(text, i + 1, i + Len(k)) = k

\* any(k in text for k in keys)
AnyIn(keys, text) == \E i \in 1..Len(keys) : Contains(keys[i], text)

RECURSIVE Concat(_)
Concat(ws) == IF ws = <<>> THEN <<>> ELSE Head(ws) \o Concat(Tail(ws))

(***************************************************************************)
(* JSON values a request body can carry in a field, and request bodies.    *)
(***************************************************************************)
JAbsent == [t |-> "absent", n |-> 0, s |-> <<>>]
JNull == [t |-> "null", n |-> 0, s |-> <<>>]
JNum(k) == [t |-> "num", n |-> k, s |-> <<>>]
JStr(x) == [t |-> "str", n |-> 0, s |-> x]

FieldNames == {"phone", "otp", "description", "pickup_location", "destination",
               "blood_group"}

\* the JSON object {}
EmptyObject == [k \in FieldNames |-> JAbsent]

\* a request body: the Content-Length header ("missing", or its text, where
\* "len" stands for the decimal length of a non-empty payload) and the payload
\* ("notutf8": bytes that are no UTF-8, "notjson": text that is no JSON,
\*  "array": a JSON array, "object": a JSON object with the given fields)
Body(cl, payload, fields) ==
    [content_length |-> cl, payload |-> payload, fields |-> fields]

NoBody == Body("missing", "none", EmptyObject)

ObjectBody(fields) == Body("len", "object", fields)

\* read_json_body: the parsed body, or the exception that escapes it
read_json_body(b) ==
    LET length_str == IF b.content_length = "missing" THEN "0" ELSE b.content_length
        \* int(length_str); ValueError -> 0
        length == IF length_str \in {"0", "abc"} THEN 0 ELSE 1
    IN  IF length = 0 THEN [exc |-> "", is_dict |-> TRUE, data |-> EmptyObject]
        \* .decode("utf-8") stands outside the try
        ELSE IF b.payload = "notutf8"
             THEN [exc |-> "UnicodeDecodeError", is_dict |-> FALSE, data |-> EmptyObject]
        \* except json.JSONDecodeError: return {}
        ELSE IF b.payload = "notjson"
             THEN [exc |-> "", is_dict |-> TRUE, data |-> EmptyObject]
        \* json.loads returns whatever value the text holds
        ELSE IF b.payload = "array"
             THEN [exc |-> "", is_dict |-> FALSE, data |-> EmptyObject]
        ELSE [exc |-> "", is_dict |-> TRUE, data |-> b.fields]

\* Python truthiness of a JSON field value read with data.get(k)
Falsy(v) ==
    \/ v.t \in {"absent", "null"}
    \/ v.t = "num" /\ v.n = 0
    \/ v.t = "str" /\ v.s = <<>>

\* (data.get(k) or ""): the value a str method is then called on
OrEmpty(v) == IF Falsy(v) THEN JStr(<<>>) ELSE v

\* The text a handler reads from field k of the body: data.get raises
\* AttributeError on a value that is no dict, and so does the str method on a
\* truthy value that is no str.
ReadField(parsed, k) ==
    IF ~parsed.is_dict THEN [exc |-> "AttributeError", s |-> <<>>]
    ELSE LET v == OrEmpty(parsed.data[k])
         IN  IF v.t = "str" THEN [exc |-> "", s |-> v.s]
             ELSE [exc |-> "AttributeError", s |-> <<>>]

(***************************************************************************)
(* Routing.                                                                *)
(***************************************************************************)
PathLogin == <<"/", "a", "p", "i", "/", "l", "o", "g", "i", "n">>
PathSymptomChecker == <<"/", "a", "p", "i", "/", "s", "y", "m", "p", "t", "o", "m",
                        "-", "c", "h", "e", "c", "k", "e", "r">>
PathAmbulanceBook == <<"/", "a", "p", "i", "/", "a", "m", "b", "u", "l", "a", "n",
                       "c", "e", "/", "b", "o", "o", "k">>
PathBloodCheck == <<"/", "a", "p", "i", "/", "b", "l", "o", "o", "d", "/",
                    "c", "h", "e", "c", "k">>
PathDoctors == <<"/", "a", "p", "i", "/", "d", "o", "c", "t", "o", "r", "s">>

\* urlparse(self.path).path of a target that starts with a single "/": the
\* target up to its query or fragment, less the ;parameters of its last segment
urlparse_path(target) ==
    LET cut == {i \in 1..Len(target) : target[i] \in {"?", "#"}}
        url == IF cut = {} THEN target
               ELSE SubSeq(target, 1, (CHOOSE i \in cut : \A j \in cut : i <= j) - 1)
        semi == {i \in 1..Len(url) :
                    url[i] = ";" /\ \A j \in i..Len(url) : url[j] # "/"}
    IN  IF semi = {} THEN url
        ELSE SubSeq(url, 1, (CHOOSE i \in semi : \A j \in semi : i <= j) - 1)

IsPrefix(p, s) == Len(p) <= Len(s) /\ SubSeq(s, 1, Len(p)) = p

\* a routing that matches a path by its prefix instead of exactly
do_POST_prefix(target) ==
    LET path == urlparse_path(target)
    IN  IF IsPrefix(PathLogin, path) THEN "handle_login"
        ELSE IF IsPrefix(PathSymptomChecker, path) THEN "handle_symptom_checker"
        ELSE IF IsPrefix(PathAmbulanceBook, path) THEN "handle_ambulance_book"
        ELSE IF IsPrefix(PathBloodCheck, path) THEN "handle_blood_check"
        ELSE ""

\* do_POST: the handler a POST target is routed to ("" for the 404 branch)
do_POST(target) ==
    LET path == urlparse_path(target)
    IN  IF path = PathLogin THEN "handle_login"
        ELSE IF path = PathSymptomChecker THEN "handle_symptom_checker"
        ELSE IF path = PathAmbulanceBook THEN "handle_ambulance_book"
        ELSE IF path = PathBloodCheck THEN "handle_blood_check"
        ELSE ""

\* do_GET
do_GET(target) ==
    LET path == urlparse_path(target)
    IN  IF path = PathDoctors THEN "handle_doctors" ELSE ""

\* the handler a request reaches ("" when none does)
Route(r) ==
    IF r.method = "POST" THEN do_POST(r.target)
    ELSE IF r.method = "GET" THEN do_GET(r.target)
    ELSE ""

(***************************************************************************)
(* The tables (init_db) and the statements the handlers run on them.       *)
(***************************************************************************)
\* the rows init_db seeds: (name, speciality, rating, distance_km)
DoctorSeed ==
    << [name |-> "Dr. Aditi Rao", speciality |-> "emergency", rating |-> 49, distance_km |-> 12],
       [name |-> "Dr. Karan Mehta", speciality |-> "cardio", rating |-> 48, distance_km |-> 21],
       [name |-> "Dr. Sana Ali", speciality |-> "pediatrics", rating |-> 47, distance_km |-> 9] >>

\* (name, blood_group, units_available, distance_km)
BloodSeed ==
    << [name |-> "City Blood Center", blood_group |-> <<"A", "+">>, units_available |-> 6, distance_km |-> 21],
       [name |-> "City Blood Center", blood_group |-> <<"O", "+">>, units_available |-> 4, distance_km |-> 21],
       [name |-> "Metro Blood Bank", blood_group |-> <<"A", "+">>, units_available |-> 3, distance_km |-> 34],
       [name |-> "Metro Blood Bank", blood_group |-> <<"O", "+">>, units_available |-> 2, distance_km |-> 34],
       [name |-> "Govt. Blood Bank", blood_group |-> <<"A", "+">>, units_available |-> 0, distance_km |-> 41] >>

\* executemany INSERT of the seed rows into an AUTOINCREMENT table whose
\* sqlite_sequence entry is n: the rows, with their ids
WithIds(seed, n) ==
    [i \in 1..Len(seed) |-> [id |-> n + i] @@ seed[i]]

\* a seeding that skips the COUNT(*) test
SeedAlways(table, seed, n) == table \o WithIds(seed, n)

\* "SELECT COUNT(*)"; if it is 0, insert the seed rows
SeedIfEmpty(table, seed, n) ==
    IF Len(table) = 0 THEN table \o WithIds(seed, n) ELSE table

\* a sort that puts the farthest first
OrderByDistanceDesc(rows) ==
    LET n == Len(rows)
        before(i) == Cardinality({j \in 1..n :
                        \/ rows[j].distance_km > rows[i].distance_km
                        \/ rows[j].distance_km = rows[i].distance_km /\ j < i})
    IN  [k \in 1..n |-> rows[CHOOSE i \in 1..n : before(i) = k - 1]]

\* ORDER BY distance_km ASC over rows scanned in rowid order; rows of equal
\* distance keep their scan order
OrderByDistance(rows) ==
    LET n == Len(rows)
        before(i) == Cardinality({j \in 1..n :
                        \/ rows[j].distance_km < rows[i].distance_km
                        \/ rows[j].distance_km = rows[i].distance_km /\ j < i})
    IN  [k \in 1..n |-> rows[CHOOSE i \in 1..n : before(i) = k - 1]]

\* an INSERT that replaces the row of a phone already present
InsertOrReplaceUser(table, n, phone) ==
    SelectSeq(table, LAMBDA u : u.phone # phone) \o <<[id |-> n + 1, phone |-> phone]>>

\* INSERT OR IGNORE INTO users(phone): phone is UNIQUE, so a row is added only
\* when no row holds the phone (the sequence entry advances either way, see
\* LoginOutcome)
InsertOrIgnoreUser(table, n, phone) ==
    IF \E i \in 1..Len(table) : table[i].phone = phone
    THEN table
    ELSE Append(table, [id |-> n + 1, phone |-> phone])

\* SELECT ... FROM users WHERE phone = ?; fetchone(): the rows found
SelectUser(table, phone) == SelectSeq(table, LAMBDA u : u.phone = phone)

\* an id that repeats the last one given
SameRowId(n) == IF n = 0 THEN 1 ELSE n

\* the id AUTOINCREMENT gives the next row of a table whose sequence entry is n
NextRowId(n) == n + 1

\* SELECT name, units_available, distance_km FROM blood_banks
\* WHERE blood_group = ? ORDER BY distance_km ASC
SelectBanks(table, group) ==
    LET rows == OrderByDistance(SelectSeq(table, LAMBDA b : b.blood_group = group))
    IN  [i \in 1..Len(rows) |->
            [name |-> rows[i].name, units_available |-> rows[i].units_available,
             distance_km |-> rows[i].distance_km]]

(***************************************************************************)
(* Responses.  state is "none" before the first request, "pending" while   *)
(* a request is being handled, "sent" once send_json or do_OPTIONS has     *)
(* answered, "raised" when an exception left the handler: socketserver     *)
(* then logs it and closes the socket, so the client gets no response.     *)
(* conn is what became of the request's SQLite connection.                 *)
(***************************************************************************)
NoResp ==
    [state |-> "none", status |-> 0, json |-> FALSE, handler |-> "", exc |-> "",
     conn |-> "unopened", error |-> "", message |-> "", ok |-> "",
     user |-> [id |-> 0, phone |-> <<>>],
     possible_problem |-> "", severity |-> "", urgency |-> "", recommendation |-> "",
     doctors |-> <<>>, booking_id |-> 0, eta_minutes |-> 0,
     blood_group |-> <<>>, banks |-> <<>>]

Pending == [NoResp EXCEPT !.state = "pending"]

\* send_json(data, status) from handler h
send_json(h, status, conn) ==
    [NoResp EXCEPT !.state = "sent", !.status = status, !.json = TRUE,
                   !.handler = h, !.conn = conn]

SendError(h, status, msg, conn) == [send_json(h, status, conn) EXCEPT !.error = msg]

\* an exception leaves handler h
Raised(h, exc, conn) ==
    [NoResp EXCEPT !.state = "raised", !.handler = h, !.exc = exc, !.conn = conn]

(***************************************************************************)
(* handle_symptom_checker: the keyword cascade.                            *)
(***************************************************************************)
Verdict(problem, severity, urgency, recommendation) ==
    [possible_problem |-> problem, severity |-> severity, urgency |-> urgency,
     recommendation |-> recommendation]

VerdictMild ==
    Verdict("General viral / mild condition", "mild", "normal",
            "Monitor at home, hydrate well & consult online if symptoms persist.")
VerdictCritical ==
    Verdict("Possible cardiac / neurological emergency", "critical", "emergency",
            "Immediate ambulance required. Do NOT drive yourself. Start CPR if not breathing.")
VerdictBreathing ==
    Verdict("Breathing difficulty / possible asthma or lung issue", "high", "urgent",
            "Use inhaler if prescribed & seek emergency department or ambulance if worsening.")
VerdictBleeding ==
    Verdict("Significant bleeding", "high", "urgent",
            "Apply firm pressure, keep limb elevated & visit nearest emergency within 30 minutes.")
VerdictFever ==
    Verdict("Fever / infection-like symptoms", "moderate", "normal",
            "Hydrate, use paracetamol as advised & book online doctor if more than 48h or very high fever.")

\* a cascade that tests the fever keywords before the critical ones
ClassifyFeverFirst(text) ==
    IF Contains(<<"f", "e", "v", "e", "r">>, text) \/ Contains(<<"t", "e", "m", "p", "e", "r", "a", "t", "u", "r", "e">>, text)
    THEN VerdictFever
    ELSE IF AnyIn(<<<<"c", "h", "e", "s", "t">>, <<"s", "t", "r", "o", "k", "e">>, <<"u", "n", "c", "o", "n", "s", "c", "i", "o", "u", "s">>>>, text)
    THEN VerdictCritical
    ELSE IF \/ Contains(<<"b", "r", "e", "a", "t", "h">>, text)
            \/ Contains(<<"d", "i", "f", "f", "i", "c", "u", "l", "t", "y", " ", "b", "r", "e", "a", "t", "h", "i", "n", "g">>, text)
            \/ Contains(<<"a", "s", "t", "h", "m", "a">>, text)
    THEN VerdictBreathing
    ELSE IF Contains(<<"b", "l", "e", "e", "d", "i", "n", "g">>, text) \/ Contains(<<"b", "l", "o", "o", "d">>, text)
    THEN VerdictBleeding
    ELSE VerdictMild

\* the if/elif chain of handle_symptom_checker over the lower-cased text
Classify(text) ==
    IF AnyIn(<<<<"c", "h", "e", "s", "t">>, <<"s", "t", "r", "o", "k", "e">>, <<"u", "n", "c", "o", "n", "s", "c", "i", "o", "u", "s">>>>, text)
    THEN VerdictCritical
    ELSE IF \/ Contains(<<"b", "r", "e", "a", "t", "h">>, text)
            \/ Contains(<<"d", "i", "f", "f", "i", "c", "u", "l", "t", "y", " ", "b", "r", "e", "a", "t", "h", "i", "n", "g">>, text)
            \/ Contains(<<"a", "s", "t", "h", "m", "a">>, text)
    THEN VerdictBreathing
    ELSE IF Contains(<<"b", "l", "e", "e", "d", "i", "n", "g">>, text) \/ Contains(<<"b", "l", "o", "o", "d">>, text)
    THEN VerdictBleeding
    ELSE IF Contains(<<"f", "e", "v", "e", "r">>, text) \/ Contains(<<"t", "e", "m", "p", "e", "r", "a", "t", "u", "r", "e">>, text)
    THEN VerdictFever
    ELSE VerdictMild

\* the response of handle_symptom_checker to request r
SymptomCheckerOutcome(r) ==
    LET h == "handle_symptom_checker"
        data == read_json_body(r.body)
        description == ReadField(data, "description")
        text == lower(description.s)
        v == Classify(text)
    IN  IF data.exc # "" THEN Raised(h, data.exc, "unopened")
        ELSE IF description.exc # "" THEN Raised(h, description.exc, "unopened")
        ELSE IF strip(text) = <<>>
        THEN [SendError(h, 400, "description required", "unopened")
                EXCEPT !.message = "please describe at least one symptom"]
        ELSE [send_json(h, 200, "unopened")
                EXCEPT !.possible_problem = v.possible_problem,
                       !.severity = v.severity,
                       !.urgency = v.urgency,
                       !.recommendation = v.recommendation]

(***************************************************************************)
(* The handlers that use the store.  fault names the statement at which    *)
(* SQLite raises while the request is handled: "none", "connect" (no       *)
(* connection is opened), "execute" (the first statement) or "select"      *)
(* (handle_login's SELECT, after its commit).  No handler catches the      *)
(* exception, so conn.close() is not reached.                              *)
(***************************************************************************)
OtpLength == 6
EtaMinutes == 5

\* handle_login: [resp, users, seq]
LoginOutcome(r, fault) ==
    LET h == "handle_login"
        same == [resp |-> NoResp, users |-> users, seq |-> sqlite_sequence.users]
        data == read_json_body(r.body)
        phoneF == ReadField(data, "phone")
        otpF == ReadField(data, "otp")
        phone == strip(phoneF.s)
        otp == strip(otpF.s)
        n == sqlite_sequence.users
        inserted == InsertOrIgnoreUser(users, n, phone)
        row == SelectUser(inserted, phone)
    IN  IF data.exc # "" THEN [same EXCEPT !.resp = Raised(h, data.exc, "unopened")]
        ELSE IF phoneF.exc # "" THEN [same EXCEPT !.resp = Raised(h, phoneF.exc, "unopened")]
        ELSE IF otpF.exc # "" THEN [same EXCEPT !.resp = Raised(h, otpF.exc, "unopened")]
        ELSE IF phone = <<>> \/ otp = <<>>
        THEN [same EXCEPT !.resp = SendError(h, 400, "phone and otp required", "unopened")]
        ELSE IF Len(otp) # OtpLength
        THEN [same EXCEPT !.resp = SendError(h, 400, "invalid otp, must be 6 digits", "unopened")]
        ELSE IF fault = "connect"
        THEN [same EXCEPT !.resp = Raised(h, "sqlite3.OperationalError", "unopened")]
        ELSE IF fault = "execute"
        THEN [same EXCEPT !.resp = Raised(h, "sqlite3.OperationalError", "open")]
        \* the INSERT is committed: AUTOINCREMENT's sequence entry advances even
        \* when OR IGNORE drops the row
        ELSE IF fault = "select"
        THEN [resp |-> Raised(h, "sqlite3.OperationalError", "open"),
              users |-> inserted, seq |-> n + 1]
        ELSE IF Len(row) = 0
        THEN [resp |-> SendError(h, 500, "could not create user", "closed"),
              users |-> inserted, seq |-> n + 1]
        ELSE [resp |-> [send_json(h, 200, "closed")
                          EXCEPT !.ok = "ok",
                                 !.user = [id |-> row[1].id, phone |-> row[1].phone]],
              users |-> inserted, seq |-> n + 1]

\* a booking that stores the row before it validates pickup_location
AmbulanceBookInsertFirst(r, fault) ==
    LET h == "handle_ambulance_book"
        data == read_json_body(r.body)
        pickupF == ReadField(data, "pickup_location")
        id == NextRowId(sqlite_sequence.ambulance_bookings)
        row == [id |-> id, user_phone |-> <<>>, pickup_location |-> strip(pickupF.s),
                destination |-> <<>>, status |-> "BOOKED"]
    IN  IF data.exc # "" \/ pickupF.exc # "" \/ strip(pickupF.s) = <<>>
        THEN [resp |-> SendError(h, 400, "pickup_location required", "closed"),
              bookings |-> Append(ambulance_bookings, row), seq |-> id]
        ELSE [resp |-> [send_json(h, 200, "closed")
                          EXCEPT !.ok = "ok", !.booking_id = id,
                                 !.eta_minutes = EtaMinutes,
                                 !.message = "Ambulance booked, driver will contact you shortly."],
              bookings |-> Append(ambulance_bookings, row), seq |-> id]

\* handle_ambulance_book: [resp, bookings, seq]
AmbulanceBookOutcome(r, fault) ==
    LET h == "handle_ambulance_book"
        same == [resp |-> NoResp, bookings |-> ambulance_bookings,
                 seq |-> sqlite_sequence.ambulance_bookings]
        data == read_json_body(r.body)
        phoneF == ReadField(data, "phone")
        pickupF == ReadField(data, "pickup_location")
        destF == ReadField(data, "destination")
        phone == strip(phoneF.s)
        pickup == strip(pickupF.s)
        dest == strip(destF.s)
        \* cur.lastrowid
        booking_id == NextRowId(sqlite_sequence.ambulance_bookings)
        row == [id |-> booking_id, user_phone |-> phone, pickup_location |-> pickup,
                destination |-> dest, status |-> "BOOKED"]
    IN  IF data.exc # "" THEN [same EXCEPT !.resp = Raised(h, data.exc, "unopened")]
        ELSE IF phoneF.exc # "" THEN [same EXCEPT !.resp = Raised(h, phoneF.exc, "unopened")]
        ELSE IF pickupF.exc # "" THEN [same EXCEPT !.resp = Raised(h, pickupF.exc, "unopened")]
        ELSE IF destF.exc # "" THEN [same EXCEPT !.resp = Raised(h, destF.exc, "unopened")]
        ELSE IF pickup = <<>>
        THEN [same EXCEPT !.resp = SendError(h, 400, "pickup_location required", "unopened")]
        ELSE IF fault = "connect"
        THEN [same EXCEPT !.resp = Raised(h, "sqlite3.OperationalError", "unopened")]
        ELSE IF fault = "execute"
        THEN [same EXCEPT !.resp = Raised(h, "sqlite3.OperationalError", "open")]
        ELSE [resp |-> [send_json(h, 200, "closed")
                          EXCEPT !.ok = "ok", !.booking_id = booking_id,
                                 !.eta_minutes = EtaMinutes,
                                 !.message = "Ambulance booked, driver will contact you shortly."],
              bookings |-> Append(ambulance_bookings, row),
              seq |-> booking_id]

\* handle_doctors
DoctorsOutcome(fault) ==
    LET h == "handle_doctors"
    IN  IF fault = "connect" THEN Raised(h, "sqlite3.OperationalError", "unopened")
        ELSE IF fault = "execute" THEN Raised(h, "sqlite3.OperationalError", "open")
        ELSE [send_json(h, 200, "closed") EXCEPT !.doctors = OrderByDistance(doctors)]

\* handle_blood_check
BloodCheckOutcome(r, fault) ==
    LET h == "handle_blood_check"
        data == read_json_body(r.body)
        groupF == ReadField(data, "blood_group")
        group == upper(strip(groupF.s))
    IN  IF data.exc # "" THEN Raised(h, data.exc, "unopened")
        ELSE IF groupF.exc # "" THEN Raised(h, groupF.exc, "unopened")
        ELSE IF group = <<>> THEN SendError(h, 400, "blood_group required", "unopened")
        ELSE IF fault = "connect" THEN Raised(h, "sqlite3.OperationalError", "unopened")
        ELSE IF fault = "execute" THEN Raised(h, "sqlite3.OperationalError", "open")
        ELSE [send_json(h, 200, "closed")
                EXCEPT !.blood_group = group, !.banks = SelectBanks(blood_banks, group)]

(***************************************************************************)
(* The requests the model sends.                                           *)
(***************************************************************************)
Methods == {"GET", "POST", "OPTIONS"}

Targets ==
    {PathLogin, PathSymptomChecker, PathAmbulanceBook, PathBloodCheck, PathDoctors,
     PathLogin \o <<"/">>,
     PathLogin \o <<"?", "n", "e", "x", "t", "=", "1">>,
     PathDoctors \o <<";", "v", "?", "n", "e", "a", "r">>,
     <<"/", "a", "p", "i", "/", "u", "n", "k", "n", "o", "w", "n">>}

Request(m, t, b) == [method |-> m, target |-> t, body |-> b]

\* every method on every target, without a body
RoutingRequests == {Request(m, t, NoBody) : m \in Methods, t \in Targets}

PostTargets == {PathLogin, PathSymptomChecker, PathAmbulanceBook, PathBloodCheck}

\* bodies that carry no usable object
UnusableBodies ==
    {Body("abc", "object", EmptyObject), Body("0", "none", EmptyObject),
     Body("len", "notutf8", EmptyObject), Body("len", "notjson", EmptyObject),
     Body("len", "array", EmptyObject), ObjectBody(EmptyObject)}

UnusableRequests == {Request("POST", t, b) : t \in PostTargets, b \in UnusableBodies}

PhoneValues ==
    {JAbsent, JNum(91), JStr(<<" ">>), JStr(<<"9", "1">>), JStr(<<" ", "9", "1", " ">>), JStr(<<"9", "2">>)}

OtpValues ==
    {JNull, JNum(123456), JStr(<<"1", "2", "3", "4", "5">>), JStr(<<"1", "2", "3", "4", "5", "x">>), JStr(<<"1", "2", "3", "4", "5", "6", "7">>),
     JStr(<<"1", "2", "3", "4", "5", "6", " ">>), JStr(<<" ", "1", "2", "3", "4", "5">>), JStr(<<" ", " ", " ", " ", " ", " ">>)}

LoginRequests ==
    {Request("POST", PathLogin,
             ObjectBody([EmptyObject EXCEPT !.phone = p, !.otp = o])) :
        p \in PhoneValues, o \in OtpValues}

BookRequests ==
    {Request("POST", PathAmbulanceBook,
             ObjectBody([EmptyObject EXCEPT !.phone = p, !.pickup_location = l,
                                            !.destination = d])) :
        p \in {JAbsent, JNum(91), JStr(<<"9", "1">>)},
        l \in {JAbsent, JNum(7), JStr(<<" ">>), JStr(<<"M", "G">>), JStr(<<" ", "M", "G", "\t">>)},
        d \in {JAbsent, JNum(7)}}

BloodRequests ==
    {Request("POST", PathBloodCheck, ObjectBody([EmptyObject EXCEPT !.blood_group = g])) :
        g \in {JNull, JNum(0), JNum(7), JStr(<<" ">>), JStr(<<"a", "+">>), JStr(<<"A", "+">>),
               JStr(<<" ", "o", "+", " ">>), JStr(<<"O", "+">>), JStr(<<"B", "-">>), JStr(<<"a">>)}}

Words ==
    {<<"C", "h", "e", "s", "t">>, <<"S", "T", "R", "O", "K", "E">>, <<"u", "n", "c", "o", "n", "s", "c", "i", "o", "u", "s">>, <<"b", "r", "e", "a", "t", "h">>, <<"A", "s", "t", "h", "m", "a">>,
     <<"d", "i", "f", "f", "i", "c", "u", "l", "t", "y", " ", "b", "r", "e", "a", "t", "h", "i", "n", "g">>, <<"b", "l", "e", "e", "d", "i", "n", "g">>, <<"B", "l", "o", "o", "d">>, <<"f", "e", "v", "e", "r">>, <<"T", "e", "m", "p", "e", "r", "a", "t", "u", "r", "e">>,
     <<" ">>, <<"\t">>, <<"n", "o", " ">>, <<"c", "o", "u", "g", "h">>}

\* the concatenations of at most n words
Descriptions(n) == {Concat(ws) : ws \in UNION {[1..k -> Words] : k \in 0..n}}

SymptomRequest(d) ==
    Request("POST", PathSymptomChecker, ObjectBody([EmptyObject EXCEPT !.description = d]))

SymptomRequests ==
    {SymptomRequest(d) : d \in {JNum(7)} \cup {JStr(x) : x \in Descriptions(1)}}

Requests ==
    RoutingRequests \cup UnusableRequests \cup LoginRequests \cup BookRequests
        \cup BloodRequests \cup SymptomRequests

(***************************************************************************)
(* The server.                                                             *)
(***************************************************************************)
NoRequest == Request("", <<>>, NoBody)

\* the database file before the first start
Init ==
    /\ users = <<>>
    /\ doctors = <<>>
    /\ ambulance_bookings = <<>>
    /\ blood_banks = <<>>
    /\ sqlite_sequence = [users |-> 0, doctors |-> 0, ambulance_bookings |-> 0,
                          blood_banks |-> 0]
    /\ started = FALSE
    /\ req = NoRequest
    /\ resp = NoResp

\* run_server: init_db, then serve.  It runs at the first start and at every
\* restart of the process on the same database file.
RunServer ==
    /\ resp.state # "pending"
    /\ doctors' = SeedIfEmpty(doctors, DoctorSeed, sqlite_sequence.doctors)
    /\ blood_banks' = SeedIfEmpty(blood_banks, BloodSeed, sqlite_sequence.blood_banks)
    /\ sqlite_sequence' = [sqlite_sequence EXCEPT
                             !.doctors = IF doctors' = doctors THEN @ ELSE @ + Len(DoctorSeed),
                             !.blood_banks = IF blood_banks' = blood_banks THEN @
                                             ELSE @ + Len(BloodSeed)]
    /\ started' = TRUE
    /\ UNCHANGED <<users, ambulance_bookings, req, resp>>

\* serve_forever accepts the next request once the last one is done
Receive(r) ==
    /\ started
    /\ resp.state # "pending"
    /\ Route(r) = "handle_login" => sqlite_sequence.users < MaxLogins
    /\ Route(r) = "handle_ambulance_book" => Len(ambulance_bookings) < MaxBookings
    /\ req' = r
    /\ resp' = Pending
    /\ UNCHANGED <<db, started>>

Handling(h) == resp.state = "pending" /\ Route(req) = h

\* do_OPTIONS
do_OPTIONS ==
    /\ resp.state = "pending"
    /\ req.method = "OPTIONS"
    /\ resp' = [NoResp EXCEPT !.state = "sent", !.status = 200]
    /\ UNCHANGED <<db, started, req>>

\* the else branch of do_POST and of do_GET
NotFound ==
    /\ Handling("")
    /\ req.method \in {"GET", "POST"}
    /\ resp' = SendError("", 404, "Not found", "unopened")
    /\ UNCHANGED <<db, started, req>>

handle_login(fault) ==
    /\ Handling("handle_login")
    /\ LET out == LoginOutcome(req, fault)
       IN  /\ resp' = out.resp
           /\ users' = out.users
           /\ sqlite_sequence' = [sqlite_sequence EXCEPT !.users = out.seq]
    /\ UNCHANGED <<doctors, ambulance_bookings, blood_banks, started, req>>

handle_symptom_checker ==
    /\ Handling("handle_symptom_checker")
    /\ resp' = SymptomCheckerOutcome(req)
    /\ UNCHANGED <<db, started, req>>

handle_doctors(fault) ==
    /\ Handling("handle_doctors")
    /\ resp' = DoctorsOutcome(fault)
    /\ UNCHANGED <<db, started, req>>

handle_ambulance_book(fault) ==
    /\ Handling("handle_ambulance_book")
    /\ LET out == AmbulanceBookOutcome(req, fault)
       IN  /\ resp' = out.resp
           /\ ambulance_bookings' = out.bookings
           /\ sqlite_sequence' = [sqlite_sequence EXCEPT !.ambulance_bookings = out.seq]
    /\ UNCHANGED <<users, doctors, blood_banks, started, req>>

handle_blood_check(fault) ==
    /\ Handling("handle_blood_check")
    /\ resp' = BloodCheckOutcome(req, fault)
    /\ UNCHANGED <<db, started, req>>

Next ==
    \/ RunServer
    \/ \E r \in Requests : Receive(r)
    \/ do_OPTIONS
    \/ NotFound
    \/ handle_login("none")
    \/ handle_symptom_checker
    \/ handle_doctors("none")
    \/ handle_ambulance_book("none")
    \/ handle_blood_check("none")

Spec == Init /\ [][Next]_vars

(***************************************************************************)
(* The same server with a storage engine that can fail during a request.   *)
(***************************************************************************)
StoreFailure ==
    \/ \E f \in {"connect", "execute", "select"} : handle_login(f)
    \/ \E f \in {"connect", "execute"} : handle_doctors(f)
    \/ \E f \in {"connect", "execute"} : handle_ambulance_book(f)
    \/ \E f \in {"connect", "execute"} : handle_blood_check(f)

NextFault == Next \/ StoreFailure

SpecFault == Init /\ [][NextFault]_vars

(***************************************************************************)
(* The classifier on its own: the server, started, handles one             *)
(* symptom-checker request whose description is any string of the bound.   *)
(***************************************************************************)
InitTriage ==
    /\ users = <<>>
    /\ ambulance_bookings = <<>>
    /\ doctors = WithIds(DoctorSeed, 0)
    /\ blood_banks = WithIds(BloodSeed, 0)
    /\ sqlite_sequence = [users |-> 0, doctors |-> Len(DoctorSeed),
                          ambulance_bookings |-> 0, blood_banks |-> Len(BloodSeed)]
    /\ started = TRUE
    /\ req \in {SymptomRequest(JStr(x)) : x \in Descriptions(MaxWords)}
    /\ resp = Pending

NextTriage == handle_symptom_checker

SpecTriage == InitTriage /\ [][NextTriage]_vars

(***************************************************************************)
(* Properties.  The helpers below state what the claims expect and are     *)
(* written apart from the definitions that model the code.                 *)
(***************************************************************************)
Blank(s) == \A i \in 1..Len(s) : s[i] \in Whitespace

RECURSIVE DropLeading(_)
DropLeading(s) ==
    IF s # <<>> /\ Head(s) \in Whitespace THEN DropLeading(Tail(s)) ELSE s

RECURSIVE DropTrailing(_)
DropTrailing(s) ==
    IF s # <<>> /\ s[Len(s)] \in Whitespace
    THEN DropTrailing(SubSeq(s, 1, Len(s) - 1))
    ELSE s

\* s without its leading and trailing whitespace
Trimmed(s) == DropTrailing(DropLeading(s))

\* keyword k (lower case) occurs in d, letter case ignored
Occurs(k, d) ==
    \E i \in 0..(Len(d) - Len(k)) : \A j \in 1..Len(k) : LowerChar(d[i + j]) = k[j]

\* the request was answered or dropped
Done == resp.state \in {"sent", "raised"}

\* the supplied value of field k, and whether it is a string or left out
Supplied(k) == req.body.fields[k]
Textual(k) == Supplied(k).t \in {"absent", "null", "str"}

\* the body is a JSON object, or one the server reads as {}
AsEmpty(b) == b.content_length \in {"missing", "0", "abc"} \/ b.payload = "notjson"
Usable(b) == AsEmpty(b) \/ b.payload = "object"
Field(k) == IF AsEmpty(req.body) THEN JAbsent ELSE Supplied(k)

PathOf(r) == urlparse_path(r.target)

(* C1 ******************************************************************** *)
RefRules ==
    << [keys |-> {<<"c", "h", "e", "s", "t">>, <<"s", "t", "r", "o", "k", "e">>, <<"u", "n", "c", "o", "n", "s", "c", "i", "o", "u", "s">>},
        problem |-> "Possible cardiac / neurological emergency",
        severity |-> "critical", urgency |-> "emergency"],
       [keys |-> {<<"b", "r", "e", "a", "t", "h">>, <<"a", "s", "t", "h", "m", "a">>},
        problem |-> "Breathing difficulty / possible asthma or lung issue",
        severity |-> "high", urgency |-> "urgent"],
       [keys |-> {<<"b", "l", "e", "e", "d", "i", "n", "g">>, <<"b", "l", "o", "o", "d">>},
        problem |-> "Significant bleeding",
        severity |-> "high", urgency |-> "urgent"],
       [keys |-> {<<"f", "e", "v", "e", "r">>, <<"t", "e", "m", "p", "e", "r", "a", "t", "u", "r", "e">>},
        problem |-> "Fever / infection-like symptoms",
        severity |-> "moderate", urgency |-> "normal"] >>

RuleHits(i, d) == \E k \in RefRules[i].keys : Occurs(k, d)

\* C1: for every description string the symptom-checker answers 400 when the
\* text is blank, and otherwise 200 with the verdict of the first rule, in the
\* order critical, breathing, bleeding, fever, one of whose keywords occurs in
\* the text, or mild/normal when none occurs; a rule-1 keyword always gives
\* severity critical.
C1_FirstMatchCascade ==
    (Done /\ PathOf(req) = PathSymptomChecker /\ req.method = "POST"
          /\ req.body.payload = "object" /\ Supplied("description").t = "str") =>
        LET d == Supplied("description").s
            hits == {i \in 1..Len(RefRules) : RuleHits(i, d)}
        IN  IF Blank(d) THEN resp.state = "sent" /\ resp.status = 400
            ELSE /\ resp.state = "sent" /\ resp.status = 200
                 /\ IF hits = {}
                    THEN resp.severity = "mild" /\ resp.urgency = "normal"
                    ELSE LET first == CHOOSE i \in hits : \A j \in hits : i <= j
                         IN  /\ resp.severity = RefRules[first].severity
                             /\ resp.urgency = RefRules[first].urgency
                             /\ resp.possible_problem = RefRules[first].problem
                 /\ RuleHits(1, d) => resp.severity = "critical"

\* a description with a critical and a fever keyword was classified critical
C1_Witness ==
    /\ resp.state = "sent" /\ resp.severity = "critical"
    /\ Occurs(<<"s", "t", "r", "o", "k", "e">>, Supplied("description").s)
    /\ Occurs(<<"f", "e", "v", "e", "r">>, Supplied("description").s)

(* C2 ******************************************************************** *)
LoginOk ==
    resp.state = "pending" /\ resp'.state = "sent"
        /\ resp'.handler = "handle_login" /\ resp'.status = 200

\* C2: no two user rows share a phone; a successful login returns the row of
\* its phone; if the phone already had a row the login returns that row's id
\* and leaves the users table as it was, and rows already there stay as they
\* are, so that every later login with the phone returns the same id.
C2_LoginIdempotent ==
    /\ [](\A i, j \in 1..Len(users) : users[i].phone = users[j].phone => i = j)
    /\ [][LoginOk =>
            LET u == resp'.user
            IN  /\ u.phone = Trimmed(Supplied("phone").s)
                /\ \E i \in 1..Len(users') : users'[i] = u
                /\ Len(users) <= Len(users')
                /\ SubSeq(users', 1, Len(users)) = users
                /\ \A i \in 1..Len(users) :
                      users[i].phone = u.phone => users[i].id = u.id /\ users' = users
         ]_vars

\* a second login with a phone that has a row was answered 200
C2_Witness ==
    /\ resp.state = "sent" /\ resp.handler = "handle_login" /\ resp.status = 200
    /\ sqlite_sequence.users >= 2 /\ Len(users) = 1
    /\ resp.user.id = users[1].id

(* C3 ******************************************************************** *)
BookingHandled ==
    /\ Handling("handle_ambulance_book") /\ resp'.state # "pending"
    /\ req.body.payload = "object" /\ req.body.content_length = "len"
    /\ Textual("phone") /\ Textual("pickup_location") /\ Textual("destination")

BookedAsClaimed ==
    LET n == Len(ambulance_bookings)
    IN  /\ resp'.state = "sent" /\ resp'.status = 200
        /\ resp'.eta_minutes = 5
        /\ Len(ambulance_bookings') = n + 1
        /\ SubSeq(ambulance_bookings', 1, n) = ambulance_bookings
        /\ ambulance_bookings'[n + 1].status = "BOOKED"
        /\ ambulance_bookings'[n + 1].id = resp'.booking_id
        /\ \A i \in 1..n : ambulance_bookings[i].id < resp'.booking_id

\* C3 as stated: every booking whose pickup_location, as supplied, is not
\* empty answers 200 with eta_minutes 5, stores a BOOKED row, and returns an
\* id greater than every id returned before.
C3_Original ==
    [][(BookingHandled /\ Supplied("pickup_location").s # <<>>) => BookedAsClaimed]_vars

\* C3 amended: every booking whose pickup_location is not empty once its
\* leading and trailing whitespace is removed (phone, pickup_location and
\* destination being strings or left out) answers 200 with eta_minutes 5,
\* stores one new row with status BOOKED, and returns that row's id, which is
\* greater than the id of every booking stored before, whatever requests came
\* in between.
C3_BookingIdsIncrease ==
    [][(BookingHandled /\ Trimmed(Supplied("pickup_location").s) # <<>>)
            => BookedAsClaimed]_vars

\* a second booking was stored
C3_Witness ==
    /\ resp.state = "sent" /\ resp.handler = "handle_ambulance_book"
    /\ resp.status = 200 /\ resp.booking_id = 2
    /\ Len(ambulance_bookings) = 2

(* C4 ******************************************************************** *)
LoginAnswered ==
    /\ Done /\ req.method = "POST" /\ PathOf(req) = PathLogin
    /\ Usable(req.body) /\ Textual("phone") /\ Textual("otp")

\* C4 as stated: 400 when phone or otp is empty or missing or the otp as
\* supplied is not 6 characters long; 200 when phone is not empty and the otp
\* has exactly 6 characters.
C4_Original ==
    LoginAnswered =>
        LET p == Field("phone").s
            o == Field("otp").s
        IN  /\ (p = <<>> \/ o = <<>> \/ Len(o) # 6) => resp.status = 400
            /\ (p # <<>> /\ Len(o) = 6) => resp.status = 200

\* C4 amended: with phone and otp each a string or left out, the login is
\* answered 400 when, leading and trailing whitespace removed, the phone or
\* the otp is empty or the otp is not exactly 6 characters long, and 200 when
\* the trimmed phone is not empty and the trimmed otp has exactly 6 characters.
C4_LoginValidation ==
    LoginAnswered =>
        LET p == Trimmed(Field("phone").s)
            o == Trimmed(Field("otp").s)
        IN  /\ resp.state = "sent"
            /\ (p = <<>> \/ o = <<>> \/ Len(o) # 6) => resp.status = 400
            /\ (p # <<>> /\ Len(o) = 6) => resp.status = 200

\* an otp supplied with 7 characters, 6 once trimmed, was accepted
C4_Witness ==
    /\ LoginAnswered /\ resp.status = 200
    /\ Len(Field("otp").s) = 7

(* C5 ******************************************************************** *)
BloodAnswered ==
    /\ Done /\ req.method = "POST" /\ PathOf(req) = PathBloodCheck
    /\ Usable(req.body) /\ Textual("blood_group")

\* the banks answered are the entries of group g, nearest first
BanksOf(g) ==
    LET match == {i \in 1..Len(blood_banks) : blood_banks[i].blood_group = g}
    IN  /\ resp.blood_group = g
        /\ Len(resp.banks) = Cardinality(match)
        /\ \A i \in match : \E k \in 1..Len(resp.banks) :
              /\ resp.banks[k].name = blood_banks[i].name
              /\ resp.banks[k].units_available = blood_banks[i].units_available
              /\ resp.banks[k].distance_km = blood_banks[i].distance_km
        /\ \A k, l \in 1..Len(resp.banks) :
              k < l => resp.banks[k].distance_km <= resp.banks[l].distance_km

\* C5 as stated: a blood_group that is not empty is answered 200 with the
\* entries whose group equals the upper-cased query, nearest first; an empty
\* one is answered 400.
C5_Original ==
    BloodAnswered =>
        LET q == Field("blood_group").s
        IN  IF q = <<>> THEN resp.status = 400
            ELSE resp.status = 200 /\ BanksOf(upper(q))

\* C5 amended: with blood_group a string or left out, a query that is empty
\* once trimmed is answered 400; any other is answered 200 with its trimmed,
\* upper-cased group and exactly the entries of that group, nearest first
\* (none when no entry matches), so that queries differing only in letter
\* case get the same response.
C5_BloodCheck ==
    BloodAnswered =>
        LET q == Trimmed(Field("blood_group").s)
        IN  /\ resp.state = "sent"
            /\ IF q = <<>> THEN resp.status = 400
               ELSE resp.status = 200 /\ BanksOf(upper(q))

\* a lower-case query was answered with the three A+ entries
C5_Witness ==
    /\ BloodAnswered /\ resp.status = 200
    /\ Field("blood_group").s = <<"a", "+">>
    /\ Len(resp.banks) = 3

(* C6 ******************************************************************** *)
\* list holds each row of seed once and nothing else
EachOnce(list, seed) ==
    /\ Len(list) = Len(seed)
    /\ \A s \in 1..Len(seed) :
          Cardinality({i \in 1..Len(list) :
              \A f \in DOMAIN seed[s] : list[i][f] = seed[s][f]}) = 1

\* C6: once the server has started, however often init_db ran and whatever
\* was requested, the doctors table holds each seed doctor exactly once and the
\* blood_banks table each seed entry exactly once, and every answer of
\* GET /api/doctors lists each seed doctor once, in ascending distance_km,
\* doctors at equal distance in insertion (id) order.
C6_DoctorsListing ==
    /\ started => EachOnce(doctors, DoctorSeed) /\ EachOnce(blood_banks, BloodSeed)
    /\ (Done /\ resp.handler = "handle_doctors") =>
          /\ resp.state = "sent" /\ resp.status = 200
          /\ EachOnce(resp.doctors, DoctorSeed)
          /\ \A i, j \in 1..Len(resp.doctors) :
                i < j => \/ resp.doctors[i].distance_km < resp.doctors[j].distance_km
                         \/ /\ resp.doctors[i].distance_km = resp.doctors[j].distance_km
                            /\ resp.doctors[i].id < resp.doctors[j].id

\* the doctors were listed after users and bookings had been stored
C6_Witness ==
    /\ resp.state = "sent" /\ resp.handler = "handle_doctors"
    /\ Len(resp.doctors) = 3 /\ resp.doctors[1].name = "Dr. Sana Ali"
    /\ Len(users) > 0 /\ Len(ambulance_bookings) > 0

(* C7 ******************************************************************** *)
\* the handler the dispatch table gives a request ("" when it has none)
TableHandler(r) ==
    IF r.method = "POST" /\ PathOf(r) = PathLogin THEN "handle_login"
    ELSE IF r.method = "POST" /\ PathOf(r) = PathSymptomChecker THEN "handle_symptom_checker"
    ELSE IF r.method = "POST" /\ PathOf(r) = PathAmbulanceBook THEN "handle_ambulance_book"
    ELSE IF r.method = "POST" /\ PathOf(r) = PathBloodCheck THEN "handle_blood_check"
    ELSE IF r.method = "GET" /\ PathOf(r) = PathDoctors THEN "handle_doctors"
    ELSE ""

NotFoundAnswer ==
    /\ resp.state = "sent" /\ resp.status = 404 /\ resp.json
    /\ resp.error = "Not found" /\ resp.handler = ""

Required(h) ==
    IF h = "handle_login" THEN {"phone", "otp"}
    ELSE IF h = "handle_symptom_checker" THEN {"description"}
    ELSE IF h = "handle_ambulance_book" THEN {"pickup_location"}
    ELSE {"blood_group"}

\* the body holds a JSON object with a string in field k
Present(k) ==
    /\ req.body.content_length = "len" /\ req.body.payload = "object"
    /\ Supplied(k).t = "str"

\* C8: every POST to a known route, whatever its body, is answered with a
\* JSON response that carries a status, and with the route's 400 when a
\* required field is not present as a string.
C8_BodyNeverRaises ==
    (Done /\ req.method = "POST" /\ TableHandler(req) # "") =>
        /\ resp.state = "sent" /\ resp.json /\ resp.status # 0
        /\ (\E k \in Required(TableHandler(req)) : ~Present(k)) => resp.status = 400

(* C9 ******************************************************************** *)
\* C9: a request during which the storage engine fails is answered 500 with
\* a JSON body {error: message}, its connection is released, and it leaves
\* the store as it was.
C9_StoreFailureIs500 ==
    /\ [](resp.exc = "sqlite3.OperationalError" =>
            /\ resp.status = 500 /\ resp.json /\ resp.error # ""
            /\ resp.conn # "open")
    /\ [][resp'.exc = "sqlite3.OperationalError" => db' = db]_vars

(* C10 ******************************************************************* *)
\* C10: once the server has started, no step changes the doctors or the
\* blood_banks table or an existing users or bookings row; the users table
\* changes only by a login answered 200, which adds at most one row; the
\* bookings table changes only by a booking answered 200, and every booking
\* answered 200 adds exactly one row.
C10_StoreFrame ==
    [][started =>
        /\ doctors' = doctors /\ blood_banks' = blood_banks
        /\ Len(users') \in {Len(users), Len(users) + 1}
        /\ SubSeq(users', 1, Len(users)) = users
        /\ users' # users =>
              resp'.state = "sent" /\ resp'.handler = "handle_login" /\ resp'.status = 200
        /\ Len(ambulance_bookings') \in {Len(ambulance_bookings), Len(ambulance_bookings) + 1}
        /\ SubSeq(ambulance_bookings', 1, Len(ambulance_bookings)) = ambulance_bookings
        /\ ambulance_bookings' # ambulance_bookings <=>
              /\ resp.state = "pending" /\ resp'.state = "sent"
              /\ resp'.handler = "handle_ambulance_book" /\ resp'.status = 200
      ]_vars

\* a booking for a phone that has no user row was stored, the users table
\* still empty
C10_Witness ==
    /\ resp.state = "sent" /\ resp.handler = "handle_ambulance_book" /\ resp.status = 200
    /\ users = <<>>
    /\ ambulance_bookings[Len(ambulance_bookings)].user_phone = <<"9", "1">>

====
